---- MODULE Spec2Model ----
(***************************************************************************)
(* Model of the scan-and-relate pipeline of src/src/scanner.ts:            *)
(* scanAgents / scanSkills / scanCommands, mergeNodes, findRelationships   *)
(* and scanProject, run against a small configuration tree.                *)
(*                                                                         *)
(* Strings are sequences of text fragments.  The fragments are chosen so   *)
(* that no fragment is a prefix of another: two fragment sequences are     *)
(* equal exactly when the strings they spell are equal.  Names are spelled *)
(* with the letters x, X, y, Y, q; front-matter syntax (keys, colons,      *)
(* dashes, line ends) uses none of these letters and is spelled with the   *)
(* separator fragments "\n" and ",".                                       *)
(*                                                                         *)
(* Spec runs scanProject against the trees; SpecEdges runs addEdge on its  *)
(* own; SpecCommandFile, SpecSkillFile and SpecAgentBody run the text      *)
(* functions (parseYamlFrontmatter, the trigger pattern, the system-prompt *)
(* cut) on the text of one file, spelled character by character with the   *)
(* words of WordFrags and TriggerWords as single fragments.  SpecDocument  *)
(* runs the parser and the body extractor on one document, SpecParser the  *)
(* line loop of the parser one turn at a time, SpecRelate findRelationships*)
(* with reads that fail, and SpecCli the steps of run() in lib/cli.js.     *)
(***************************************************************************)
EXTENDS Integers, Sequences, FiniteSets, TLC

VARIABLES
  tree,       \* the local and the global configuration tree
  outFile,    \* the output file: absent, complete with its graph, or torn
  last,       \* the outcome of the call of scanProject in progress
  collector,  \* an edge collector of findRelationships: edges and addedEdges
  attempts,   \* the calls of addEdge made on the collector, in order
  input,      \* the text handed to a text function, or the options of a run
  output      \* what the function returned for it, or the state of the run

vars == <<tree, outFile, last, collector, attempts, input, output>>

\* The variables of the edge collector and of the text functions.
harness == <<collector, attempts, input, output>>

\* Greatest number of entries (files, skill directories, broken listings)
\* the environment puts under the two configuration roots.
MaxFiles == 3

Scopes == {"local", "global"}

----------------------------------------------------------------------------
\* String primitives of the JavaScript runtime, on fragment sequences.

\* String.prototype.toLowerCase, one fragment.
LowerChar(c) ==
  CASE c = "X" -> "x"
    [] c = "Y" -> "y"
    [] OTHER -> c

\* String.prototype.toLowerCase.
ToLower(s) == [i \in 1..Len(s) |-> LowerChar(s[i])]

RECURSIVE TrimLeft(_)
TrimLeft(s) ==
  IF s # <<>> /\ Head(s) = " " THEN TrimLeft(Tail(s)) ELSE s

RECURSIVE TrimRight(_)
TrimRight(s) ==
  IF s # <<>> /\ s[Len(s)] = " " THEN TrimRight(SubSeq(s, 1, Len(s) - 1)) ELSE s

\* String.prototype.trim.
Trim(s) == TrimRight(TrimLeft(s))

\* String.prototype.includes: key occurs as a contiguous run of text.
Includes(text, key) ==
  \E i \in 1..(Len(text) + 1) :
    /\ i + Len(key) - 1 <= Len(text)
    /\ SubSeq(text, i, i + Len(key) - 1) = key

\* String.prototype.replace(pattern, '') with a one-fragment pattern:
\* only the first occurrence is removed.
RECURSIVE ReplaceFirst(_, _)
ReplaceFirst(s, pat) ==
  IF s = <<>> THEN <<>>
  ELSE IF Head(s) = pat THEN Tail(s)
  ELSE <<Head(s)>> \o ReplaceFirst(Tail(s), pat)

\* String.prototype.split(','): the pieces between the commas.
RECURSIVE SplitComma(_)
SplitComma(s) ==
  IF \E i \in 1..Len(s) : s[i] = ","
  THEN LET i == CHOOSE j \in 1..Len(s) : s[j] = "," /\ \A k \in 1..(j - 1) : s[k] # ","
       IN  <<SubSeq(s, 1, i - 1)>> \o SplitComma(SubSeq(s, i + 1, Len(s)))
  ELSE <<s>>

\* The values a front-matter key can hold after parseYamlFrontmatter:
\* nothing (key absent), a scalar string, or a list of strings.
Absent == [kind |-> "absent"]
Scalar(s) == [kind |-> "scalar", text |-> s]
ListVal(l) == [kind |-> "list", items |-> l]

\* JavaScript truthiness of a front-matter value (the left side of `||`).
Truthy(v) == v.kind = "list" \/ (v.kind = "scalar" /\ v.text # <<>>)

\* parseListField: an array is returned as it is, a string is split at the
\* commas, trimmed and cleared of empty pieces, anything else gives [].
parseListField(value) ==
  IF value.kind = "list" THEN value.items
  ELSE IF value.kind = "scalar"
       THEN SelectSeq([i \in 1..Len(SplitComma(value.text)) |-> Trim(SplitComma(value.text)[i])],
                      LAMBDA piece : piece # <<>>)
       ELSE <<>>

----------------------------------------------------------------------------
\* The raw text of a file, as far as substring tests on names can see it:
\* the values written in the front matter and the body, kept apart by the
\* line ends of the front-matter syntax.

RECURSIVE JoinLines(_)
JoinLines(items) ==
  IF items = <<>> THEN <<>>
  ELSE Head(items) \o <<"\n">> \o JoinLines(Tail(items))

ValueText(v) ==
  IF v.kind = "scalar" THEN v.text \o <<"\n">>
  ELSE IF v.kind = "list" THEN JoinLines(v.items)
  ELSE <<>>

AgentFileText(file) ==
  ValueText(file.name) \o ValueText(file.subagents) \o ValueText(file.skills) \o file.body

----------------------------------------------------------------------------
\* The entity scanners.  A directory is the sequence of its entries in
\* listing order; each scanner returns the nodes it pushed and the warnings
\* it logged.

AgentFilePath(scope, stem) ==
  IF scope = "global"
  THEN [dir |-> <<"~", ".claude", "agents">>, file |-> stem]
  ELSE [dir |-> <<".claude", "agents">>, file |-> stem]

\* The AgentNode built from one readable file (scanner.ts 188-212).
AgentNodeOf(entry, scope) ==
  [id        |-> <<"agent:">> \o entry.stem,
   type      |-> "agent",
   name      |-> IF Truthy(entry.file.name) THEN entry.file.name ELSE Scalar(entry.stem),
   subagents |-> parseListField(entry.file.subagents),
   skills    |-> parseListField(entry.file.skills),
   filePath  |-> AgentFilePath(scope, entry.stem),
   scope     |-> scope]

RECURSIVE scanAgentsLoop(_, _, _)
scanAgentsLoop(entries, scope, acc) ==
  IF entries = <<>> THEN acc
  ELSE LET entry == Head(entries)
       IN  scanAgentsLoop(Tail(entries), scope,
             IF entry.file.readable
             THEN [acc EXCEPT !.nodes = Append(@, AgentNodeOf(entry, scope))]
             ELSE [acc EXCEPT !.warnings =
                     Append(@, [scope |-> scope, kind |-> "agent", stem |-> entry.stem])])

\* scanAgents with the try block around the loop instead of inside it: the
\* first failing file ends the scan.
RECURSIVE scanAgentsAbortLoop(_, _, _)
scanAgentsAbortLoop(entries, scope, acc) ==
  IF entries = <<>> THEN acc
  ELSE LET entry == Head(entries)
       IN  IF entry.file.readable
           THEN scanAgentsAbortLoop(Tail(entries), scope,
                  [acc EXCEPT !.nodes = Append(@, AgentNodeOf(entry, scope))])
           ELSE [acc EXCEPT !.warnings =
                   Append(@, [scope |-> scope, kind |-> "agent", stem |-> entry.stem])]

scanAgents_abortOnFailure(root, scope) ==
  scanAgentsAbortLoop(root.agents, scope, [nodes |-> <<>>, warnings |-> <<>>])

scanAgents(root, scope) ==
  scanAgentsLoop(root.agents, scope, [nodes |-> <<>>, warnings |-> <<>>])

\* The SkillNode built from one readable SKILL.md (scanner.ts 275-313).
SkillNodeOf(entry, scope) ==
  [id    |-> <<"skill:">> \o entry.stem,
   type  |-> "skill",
   name  |-> IF Truthy(entry.file.name) THEN entry.file.name ELSE Scalar(entry.stem),
   scope |-> scope]

RECURSIVE scanSkillsLoop(_, _, _)
scanSkillsLoop(entries, scope, acc) ==
  IF entries = <<>> THEN acc
  ELSE LET entry == Head(entries)
       IN  scanSkillsLoop(Tail(entries), scope,
             IF ~entry.file.hasSkillFile THEN acc
             ELSE IF entry.file.readable
             THEN [acc EXCEPT !.nodes = Append(@, SkillNodeOf(entry, scope))]
             ELSE [acc EXCEPT !.warnings =
                     Append(@, [scope |-> scope, kind |-> "skill", stem |-> entry.stem])])

\* scanSkills: the listing of an existing `skills` path is outside every
\* try block, so a listing failure leaves the scanner by exception.
scanSkills(root, scope) ==
  IF ~root.skillsListable
  THEN [nodes |-> <<>>, warnings |-> <<>>, threw |-> TRUE]
  ELSE [nodes    |-> scanSkillsLoop(root.skills, scope, [nodes |-> <<>>, warnings |-> <<>>]).nodes,
        warnings |-> scanSkillsLoop(root.skills, scope, [nodes |-> <<>>, warnings |-> <<>>]).warnings,
        threw    |-> FALSE]

\* The CommandNode built from one readable file (scanner.ts 345-360).
CommandNodeOf(entry, scope) ==
  [id    |-> <<"command:">> \o entry.stem,
   type  |-> "command",
   name  |-> Scalar(<<"/">> \o entry.stem),
   scope |-> scope]

RECURSIVE scanCommandsLoop(_, _, _)
scanCommandsLoop(entries, scope, acc) ==
  IF entries = <<>> THEN acc
  ELSE LET entry == Head(entries)
       IN  scanCommandsLoop(Tail(entries), scope,
             IF entry.file.readable
             THEN [acc EXCEPT !.nodes = Append(@, CommandNodeOf(entry, scope))]
             ELSE [acc EXCEPT !.warnings =
                     Append(@, [scope |-> scope, kind |-> "command", stem |-> entry.stem])])

scanCommands(root, scope) ==
  scanCommandsLoop(root.commands, scope, [nodes |-> <<>>, warnings |-> <<>>])

----------------------------------------------------------------------------
\* mergeNodes without the id filter.
mergeNodes_keepAll(localNodes, globalNodes) == localNodes \o globalNodes

\* mergeNodes with the two parts in the other order.
mergeNodes_globalFirst(localNodes, globalNodes) ==
  LET localIds == {localNodes[i].id : i \in 1..Len(localNodes)}
  IN  SelectSeq(globalNodes, LAMBDA n : n.id \notin localIds) \o localNodes

\* mergeNodes: local entries, then the global entries whose id is not a
\* local id.
mergeNodes(localNodes, globalNodes) ==
  LET localIds == {localNodes[i].id : i \in 1..Len(localNodes)}
  IN  localNodes \o SelectSeq(globalNodes, LAMBDA n : n.id \notin localIds)

----------------------------------------------------------------------------
\* findRelationships.

\* The collector before the first addEdge.
NoEdges == [edges |-> <<>>, added |-> {}]

\* addEdge without the test of addedEdges.
addEdge_noDedup(st, source, target, type) ==
  [edges |-> Append(st.edges, [source |-> source, target |-> target, type |-> type]),
   added |-> st.added \cup {source \o <<"->">> \o target}]

\* addEdge with its closure state: the edge array and the set of keys
\* `${source}->${target}` already added.
addEdge(st, source, target, type) ==
  LET edgeKey == source \o <<"->">> \o target
  IN  IF edgeKey \in st.added THEN st
      ELSE [edges |-> Append(st.edges, [source |-> source, target |-> target, type |-> type]),
            added |-> st.added \cup {edgeKey}]

\* Map.prototype.set and Map.prototype.get; a map is a function on its keys.
MapSet(m, k, v) == [x \in (DOMAIN m) \cup {k} |-> IF x = k THEN v ELSE m[x]]

\* A lookup that falls back to the key itself when the map has no entry.
MapGet_rawName(m, k) == IF k \in DOMAIN m THEN <<m[k]>> ELSE <<k>>

\* Map.prototype.get: <<>> stands for undefined, <<id>> for a value.
MapGet(m, k) == IF k \in DOMAIN m THEN <<m[k]>> ELSE <<>>

\* The three lookup maps (scanner.ts 392-408): every node is entered under
\* its lower-cased name and then under its lower-cased id-stem.
RECURSIVE buildMap(_, _, _)
buildMap(nodes, prefix, m) ==
  IF nodes = <<>> THEN m
  ELSE LET n == Head(nodes)
       IN  buildMap(Tail(nodes), prefix,
             MapSet(MapSet(m, ToLower(n.name.text), n.id),
                    ToLower(ReplaceFirst(n.id, prefix)), n.id))

\* `name.toLowerCase()` is a TypeError when the name is an array.
mapsThrow(agents, skills, commands) ==
  \/ \E i \in 1..Len(agents) : agents[i].name.kind # "scalar"
  \/ \E i \in 1..Len(skills) : skills[i].name.kind # "scalar"
  \/ \E i \in 1..Len(commands) : commands[i].name.kind # "scalar"

\* One declared list of an agent (scanner.ts 413-419 and 422-428).
RECURSIVE declaredLoop(_, _, _, _, _)
declaredLoop(names, agent, m, type, st) ==
  IF names = <<>> THEN st
  ELSE LET key == Trim(ToLower(Head(names)))
       IN  declaredLoop(Tail(names), agent, m, type,
             IF MapGet(m, key) # <<>>
             THEN addEdge(st, agent.id, MapGet(m, key)[1], type) ELSE st)

\* Agent -> Subagent relationships of one agent.
declaredSubagents(agent, agentMap, st) ==
  declaredLoop(agent.subagents, agent, agentMap, "calls", st)

\* The skills list handled with the type of the subagents list.
declaredSkills_calls(agent, skillMap, st) ==
  declaredLoop(agent.skills, agent, skillMap, "calls", st)

\* Agent -> Skill relationships of one agent.
declaredSkills(agent, skillMap, st) ==
  declaredLoop(agent.skills, agent, skillMap, "uses", st)

\* The metadata pass (scanner.ts 411-429).
RECURSIVE metadataPass(_, _, _, _)
metadataPass(agents, agentMap, skillMap, st) ==
  IF agents = <<>> THEN st
  ELSE LET agent == Head(agents)
           st1 == declaredSubagents(agent, agentMap, st)
           st2 == declaredSkills(agent, skillMap, st1)
       IN  metadataPass(Tail(agents), agentMap, skillMap, st2)

\* The substring test of the content pass (scanner.ts 438-441, 447-450):
\* the name is lower-cased, the id-stem is used as it is.
contentMatch(content, node, prefix) ==
  \/ Includes(content, ToLower(node.name.text))
  \/ Includes(content, ReplaceFirst(node.id, prefix))

RECURSIVE contentTargets(_, _, _, _, _)
contentTargets(nodes, prefix, agent, content, st) ==
  IF nodes = <<>> THEN st
  ELSE contentTargets(Tail(nodes), prefix, agent, content,
         IF contentMatch(content, Head(nodes), prefix)
         THEN addEdge(st, agent.id, Head(nodes).id, "uses") ELSE st)

\* The try block with a catch that starts the edge list over.
contentOf_catchClears(agent, rd, skills, commands, st) ==
  IF rd.ok
  THEN contentTargets(commands, "command:", agent, ToLower(rd.text),
         contentTargets(skills, "skill:", agent, ToLower(rd.text), st))
  ELSE NoEdges

\* The try block of the content pass for one agent (scanner.ts 434-456): rd
\* is the outcome of fs.readFile; a failed read is caught and skips the
\* agent.
contentOf(agent, rd, skills, commands, st) ==
  IF rd.ok
  THEN contentTargets(commands, "command:", agent, ToLower(rd.text),
         contentTargets(skills, "skill:", agent, ToLower(rd.text), st))
  ELSE st

\* The content pass (scanner.ts 432-457).  readFile maps the path the pass
\* builds for an agent to the outcome of reading it.
RECURSIVE contentPass(_, _, _, _, _)
contentPass(agents, skills, commands, readFile, st) ==
  IF agents = <<>> THEN st
  ELSE contentPass(Tail(agents), skills, commands, readFile,
         contentOf(Head(agents), readFile[Head(agents).filePath], skills, commands, st))

\* The two passes in the other order.
findRelationships_contentFirst(agents, skills, commands, readFile) ==
  IF mapsThrow(agents, skills, commands)
  THEN [threw |-> TRUE, edges |-> <<>>]
  ELSE LET empty == [k \in {} |-> <<>>]
           agentMap == buildMap(agents, "agent:", empty)
           skillMap == buildMap(skills, "skill:", empty)
           st0 == NoEdges
           st1 == contentPass(agents, skills, commands, readFile, st0)
           st2 == metadataPass(agents, agentMap, skillMap, st1)
       IN  [threw |-> FALSE, edges |-> st2.edges]

\* findRelationships (scanner.ts 374-460): the maps, the metadata pass, the
\* content pass; `threw` stands for the TypeError of the map building.
findRelationships(agents, skills, commands, readFile) ==
  IF mapsThrow(agents, skills, commands)
  THEN [threw |-> TRUE, edges |-> <<>>]
  ELSE LET empty == [k \in {} |-> <<>>]
           agentMap == buildMap(agents, "agent:", empty)
           skillMap == buildMap(skills, "skill:", empty)
           st0 == NoEdges
           st1 == metadataPass(agents, agentMap, skillMap, st0)
           st2 == contentPass(agents, skills, commands, readFile, st1)
       IN  [threw |-> FALSE, edges |-> st2.edges]

----------------------------------------------------------------------------
\* scanProject.

NoScan == [agents |-> <<>>, skills |-> <<>>, commands |-> <<>>, warnings |-> <<>>, threw |-> FALSE]

\* The scanner calls made whenever the root exists, requested or not.
ScanScope_wheneverRootExists(root, scope, wanted) ==
  IF ~root.exists THEN NoScan
  ELSE LET a == scanAgents(root, scope)
           s == scanSkills(root, scope)
           c == scanCommands(root, scope)
       IN  IF s.threw
           THEN [agents |-> a.nodes, skills |-> <<>>, commands |-> <<>>,
                 warnings |-> a.warnings, threw |-> TRUE]
           ELSE [agents |-> a.nodes, skills |-> s.nodes, commands |-> c.nodes,
                 warnings |-> a.warnings \o s.warnings \o c.warnings, threw |-> FALSE]

\* The three scanner calls made for one scope (scanner.ts 524-528, 535-539),
\* in order; an exception of scanSkills ends the sequence.
ScanScope(root, scope, wanted) ==
  IF ~wanted THEN NoScan
  ELSE LET a == scanAgents(root, scope)
           s == scanSkills(root, scope)
           c == scanCommands(root, scope)
       IN  IF s.threw
           THEN [agents |-> a.nodes, skills |-> <<>>, commands |-> <<>>,
                 warnings |-> a.warnings, threw |-> TRUE]
           ELSE [agents |-> a.nodes, skills |-> s.nodes, commands |-> c.nodes,
                 warnings |-> a.warnings \o s.warnings \o c.warnings, threw |-> FALSE]

\* fs.readFile(path.join(path.dirname(localClaudePath), agent.filePath)):
\* the path is resolved in the project directory.  The project directory
\* holds the local root `.claude`; it holds no directory named `~`.
ProjectRead(t, p) ==
  IF /\ p.dir = <<".claude", "agents">>
     /\ t["local"].exists
     /\ \E i \in 1..Len(t["local"].agents) :
          t["local"].agents[i].stem = p.file /\ t["local"].agents[i].file.readable
  THEN LET i == CHOOSE j \in 1..Len(t["local"].agents) : t["local"].agents[j].stem = p.file
       IN  [ok |-> TRUE, text |-> AgentFileText(t["local"].agents[i].file)]
  ELSE [ok |-> FALSE, text |-> <<>>]

\* The root checks without the two that look at the options.
missingRoot_bothAbsentOnly(includeLocal, includeGlobal, hasLocal, hasGlobal) ==
  ~hasLocal /\ ~hasGlobal

\* The three root checks (scanner.ts 507-517).
missingRoot(includeLocal, includeGlobal, hasLocal, hasGlobal) ==
  \/ includeLocal /\ ~hasLocal /\ ~includeGlobal
  \/ includeGlobal /\ ~hasGlobal /\ ~includeLocal
  \/ ~hasLocal /\ ~hasGlobal

Failed(error, includeLocal, includeGlobal, hasLocal, hasGlobal, loc, glob) ==
  [status |-> "error", error |-> error,
   includeLocal |-> includeLocal, includeGlobal |-> includeGlobal,
   hasLocal |-> hasLocal, hasGlobal |-> hasGlobal,
   local |-> loc, global |-> glob, graph |-> <<>>, repeat |-> FALSE]

\* The metadata block with the global counts taken after the merge.
buildMetadata_afterMerge(loc, glob, edges) ==
  [agentCount |-> Len(loc.agents),
   skillCount |-> Len(loc.skills),
   commandCount |-> Len(loc.commands),
   edgeCount |-> Len(edges),
   globalAgentCount |-> Len(mergeNodes(loc.agents, glob.agents)) - Len(loc.agents),
   globalSkillCount |-> Len(mergeNodes(loc.skills, glob.skills)) - Len(loc.skills),
   globalCommandCount |-> Len(mergeNodes(loc.commands, glob.commands)) - Len(loc.commands)]

\* The metadata block of the result (scanner.ts 553-564) without generatedAt,
\* the one value of the result that is read from the clock.
buildMetadata(loc, glob, edges) ==
  [agentCount |-> Len(loc.agents),
   skillCount |-> Len(loc.skills),
   commandCount |-> Len(loc.commands),
   edgeCount |-> Len(edges),
   globalAgentCount |-> Len(glob.agents),
   globalSkillCount |-> Len(glob.skills),
   globalCommandCount |-> Len(glob.commands)]

\* How creating the output directory and writing the output file can end:
\* both succeed; mkdir fails; mkdir succeeds and the file cannot be opened;
\* mkdir succeeds and the write stops after the file was truncated.
IoOutcomes == {"ok", "mkdir-fails", "write-fails", "write-torn"}

\* The first part of scanProject on tree t, up to findRelationships
\* (scanner.ts 487-547): the outcome of the call when it threw on the way,
\* else what the scanners returned and logged, the merged nodes and the edges.
scanTrees(t, includeLocal, includeGlobal) ==
  LET hasLocal == t["local"].exists
      hasGlobal == t["global"].exists
      loc == ScanScope(t["local"], "local", includeLocal /\ hasLocal)
      glob == ScanScope(t["global"], "global", includeGlobal /\ hasGlobal)
      agents == mergeNodes(loc.agents, glob.agents)
      skills == mergeNodes(loc.skills, glob.skills)
      commands == mergeNodes(loc.commands, glob.commands)
      readFile == [p \in {agents[i].filePath : i \in 1..Len(agents)} |-> ProjectRead(t, p)]
      rel == findRelationships(agents, skills, commands, readFile)
      fail(error, l, g) ==
        Failed(error, includeLocal, includeGlobal, hasLocal, hasGlobal, l, g)
  IN  IF missingRoot(includeLocal, includeGlobal, hasLocal, hasGlobal)
      THEN [threw |-> TRUE, call |-> fail("missing-root", NoScan, NoScan)]
      ELSE IF loc.threw
      THEN [threw |-> TRUE, call |-> fail("listing", loc, NoScan)]
      ELSE IF glob.threw
      THEN [threw |-> TRUE, call |-> fail("listing", loc, glob)]
      ELSE IF rel.threw
      THEN [threw |-> TRUE, call |-> fail("type-error", loc, glob)]
      ELSE [threw |-> FALSE,
            call |-> [fail("", loc, glob) EXCEPT !.status = "ok"],
            nodes |-> agents \o skills \o commands,
            edges |-> rel.edges]

\* The second part (scanner.ts 549-572): the result is built and written; io
\* says how mkdir and writeFile end.  The outcome of the call: how it ended,
\* what the scanners returned and logged, and the graph it wrote (<<>> when
\* it did not get that far).
writeResult(scanned, io) ==
  LET loc == scanned.call.local
      glob == scanned.call.global
      result == [nodes |-> scanned.nodes,
                 edges |-> scanned.edges,
                 metadata |-> buildMetadata(loc, glob, scanned.edges)]
  IN  IF scanned.threw
      THEN scanned.call
      ELSE IF io # "ok"
      THEN [scanned.call EXCEPT !.status = "error", !.error = "write"]
      ELSE [scanned.call EXCEPT !.graph = <<result>>]

scanProject(t, includeLocal, includeGlobal, io) ==
  writeResult(scanTrees(t, includeLocal, includeGlobal), io)

----------------------------------------------------------------------------
\* The configuration trees the environment builds.

plain == [readable |-> TRUE, name |-> Absent, subagents |-> Absent, skills |-> Absent, body |-> <<>>]

\* Agent files: `<stem>.md` under `agents`.
AgentEntries ==
  { [stem |-> <<"y">>, file |-> plain],
    \* permission denied
    [stem |-> <<"x">>, file |-> [plain EXCEPT !.readable = FALSE]],
    \* name:\n  - q
    [stem |-> <<"x">>, file |-> [plain EXCEPT !.name = ListVal(<< <<"q">> >>)]],
    \* name: y / subagents: Y, q / skills:\n  - x
    [stem |-> <<"x">>, file |-> [plain EXCEPT !.name = Scalar(<<"y">>),
                                              !.subagents = Scalar(<<"Y", ",", " ", "q">>),
                                              !.skills = ListVal(<< <<"x">> >>)]],
    \* no front matter, body "/X"
    [stem |-> <<"x">>, file |-> [plain EXCEPT !.body = <<"/", "X">>]] }

\* Skill directories under `skills`, each with or without a SKILL.md.
SkillEntries ==
  { [stem |-> <<"x">>, file |-> [hasSkillFile |-> TRUE, readable |-> TRUE, name |-> Absent]],
    [stem |-> <<"X">>, file |-> [hasSkillFile |-> TRUE, readable |-> TRUE, name |-> Scalar(<<"y">>)]],
    [stem |-> <<"x">>, file |-> [hasSkillFile |-> TRUE, readable |-> FALSE, name |-> Absent]],
    [stem |-> <<"y">>, file |-> [hasSkillFile |-> FALSE, readable |-> TRUE, name |-> Absent]] }

\* Command files: `<stem>.md` under `commands`.
CommandEntries ==
  { [stem |-> <<"x">>, file |-> [readable |-> TRUE]],
    [stem |-> <<"X">>, file |-> [readable |-> TRUE]],
    [stem |-> <<"x">>, file |-> [readable |-> FALSE]] }

EmptyRoot == [exists |-> FALSE, agents |-> <<>>, skills |-> <<>>, skillsListable |-> TRUE,
              commands |-> <<>>]

EntryCount(t) ==
  LET n(s) == Len(t[s].agents) + Len(t[s].skills) + Len(t[s].commands)
              + (IF t[s].skillsListable THEN 0 ELSE 1)
  IN  n("local") + n("global")

Stems(entries) == {entries[i].stem : i \in 1..Len(entries)}

NoCall == [status |-> "none", error |-> "", includeLocal |-> FALSE, includeGlobal |-> FALSE,
           hasLocal |-> FALSE, hasGlobal |-> FALSE,
           local |-> NoScan, global |-> NoScan, graph |-> <<>>, repeat |-> FALSE]

\* No text was handed to a text function yet.
NoInput == [kind |-> "none", text |-> <<>>]
NoOutput == [kind |-> "none"]

\* The output file: not there, written in full, or left torn by a write
\* that failed after the file was truncated.
NoFile == [state |-> "absent", graph |-> <<>>]
FileOf(graph) == [state |-> "complete", graph |-> graph]
TornFile == [state |-> "torn", graph |-> <<>>]

Init ==
  /\ tree = [s \in Scopes |-> EmptyRoot]
  /\ outFile = NoFile
  /\ last = NoCall
  /\ collector = NoEdges
  /\ attempts = <<>>
  /\ input = NoInput
  /\ output = NoOutput

\* mkdir of a configuration root.
MkRoot(s) ==
  /\ last = NoCall
  /\ ~tree[s].exists
  /\ tree' = [tree EXCEPT ![s].exists = TRUE]
  /\ UNCHANGED <<outFile, last, harness>>

AddAgent(s, e) ==
  /\ last = NoCall
  /\ tree[s].exists
  /\ EntryCount(tree) < MaxFiles
  /\ e.stem \notin Stems(tree[s].agents)
  /\ tree' = [tree EXCEPT ![s].agents = Append(@, e)]
  /\ UNCHANGED <<outFile, last, harness>>

AddSkill(s, e) ==
  /\ last = NoCall
  /\ tree[s].exists
  /\ tree[s].skillsListable
  /\ EntryCount(tree) < MaxFiles
  /\ e.stem \notin Stems(tree[s].skills)
  /\ tree' = [tree EXCEPT ![s].skills = Append(@, e)]
  /\ UNCHANGED <<outFile, last, harness>>

\* `skills` is created as something that exists but cannot be listed
\* (a plain file, or a directory without read permission).
BreakSkills(s) ==
  /\ last = NoCall
  /\ tree[s].exists
  /\ tree[s].skillsListable
  /\ tree[s].skills = <<>>
  /\ EntryCount(tree) < MaxFiles
  /\ tree' = [tree EXCEPT ![s].skillsListable = FALSE]
  /\ UNCHANGED <<outFile, last, harness>>

AddCommand(s, e) ==
  /\ last = NoCall
  /\ tree[s].exists
  /\ EntryCount(tree) < MaxFiles
  /\ e.stem \notin Stems(tree[s].commands)
  /\ tree' = [tree EXCEPT ![s].commands = Append(@, e)]
  /\ UNCHANGED <<outFile, last, harness>>

\* The output file with the new graph put behind what the file held.
fileAfter_appends(file, threw, io, graph) ==
  IF threw \/ io \in {"mkdir-fails", "write-fails"} THEN file
  ELSE IF io = "write-torn" THEN TornFile
  ELSE IF file.state = "complete"
  THEN FileOf(<<[graph[1] EXCEPT !.nodes = file.graph[1].nodes \o @,
                                 !.edges = file.graph[1].edges \o @]>>)
  ELSE FileOf(graph)

\* The output file after a call (scanner.ts 567-570): untouched when the call
\* threw before writeFile opened it, torn when writeFile failed after it
\* truncated the file, else the serialized result and nothing else.
fileAfter(file, threw, io, graph) ==
  IF threw \/ io \in {"mkdir-fails", "write-fails"} THEN file
  ELSE IF io = "write-torn" THEN TornFile
  ELSE FileOf(graph)

\* The trees with the output written as the file q.md among the local agents.
treeAfter_outputAmongAgents(t, threw, io) ==
  IF ~threw /\ io = "ok" /\ <<"q">> \notin Stems(t["local"].agents)
  THEN [t EXCEPT !["local"].exists = TRUE,
                 !["local"].agents = Append(@, [stem |-> <<"q">>, file |-> plain])]
  ELSE IF ~threw /\ io # "mkdir-fails" THEN [t EXCEPT !["local"].exists = TRUE]
  ELSE t

\* The trees with the local commands removed along the way.
treeAfter_dropsCommands(t, threw, io) ==
  IF ~threw /\ io # "mkdir-fails"
  THEN [t EXCEPT !["local"].exists = TRUE, !["local"].commands = <<>>]
  ELSE t

\* The trees after a call: with the output path the CLI passes,
\* <project>/.claude/visualizer/graph-data.json (cli.js 11-12, 84-90),
\* fs.mkdir(outputDir, {recursive: true}) creates the local root when it is
\* missing; nothing else is written.
treeAfter(t, threw, io) ==
  IF ~threw /\ io # "mkdir-fails" THEN [t EXCEPT !["local"].exists = TRUE] ELSE t

\* One call scanProject(project, outputPath, {includeLocal, includeGlobal});
\* io says how mkdir and writeFile end.  The call starts when no call is in
\* progress, or as the second run with the same options right after a run
\* that completed, before anything else touched the trees or the file.
ScanProject(includeLocal, includeGlobal) ==
  LET scanned == scanTrees(tree, includeLocal, includeGlobal)
  IN  /\ \/ last = NoCall
         \/ /\ last.status = "ok"
            /\ ~last.repeat
            /\ last.includeLocal = includeLocal
            /\ last.includeGlobal = includeGlobal
      /\ \E io \in IoOutcomes :
           LET call == writeResult(scanned, io)
           IN  /\ last' = [call EXCEPT !.repeat = (last # NoCall)]
               /\ outFile' = fileAfter(outFile, scanned.threw, io, call.graph)
               /\ tree' = treeAfter(tree, scanned.threw, io)
      /\ UNCHANGED harness

\* The caller has taken the outcome of the call; the next call or change of
\* the trees may follow.
Return ==
  /\ last # NoCall
  /\ last' = NoCall
  /\ UNCHANGED <<tree, outFile, harness>>

Next ==
  \/ \E s \in Scopes : MkRoot(s)
  \/ \E s \in Scopes, e \in AgentEntries : AddAgent(s, e)
  \/ \E s \in Scopes, e \in SkillEntries : AddSkill(s, e)
  \/ \E s \in Scopes : BreakSkills(s)
  \/ \E s \in Scopes, e \in CommandEntries : AddCommand(s, e)
  \/ \E il \in BOOLEAN, ig \in BOOLEAN : ScanProject(il, ig)
  \/ Return

Spec == Init /\ [][Next]_vars

----------------------------------------------------------------------------
\* The edge collector on its own: addEdge applied to any sequence of
\* attempts, with ids that may themselves contain the characters `->`.

\* Greatest number of addEdge calls made on the collector.
MaxAttempts == 3

EdgeIds == { <<"a">>, <<"b">>, <<"a", "->", "a">> }

EdgeTypes == {"uses", "calls"}

AddEdgeAttempt(source, target, type) ==
  /\ Len(attempts) < MaxAttempts
  /\ collector' = addEdge(collector, source, target, type)
  /\ attempts' = Append(attempts, [source |-> source, target |-> target, type |-> type])
  /\ UNCHANGED <<tree, outFile, last, input, output>>

NextEdges ==
  \E source \in EdgeIds, target \in EdgeIds, type \in EdgeTypes :
    AddEdgeAttempt(source, target, type)

SpecEdges == Init /\ [][NextEdges]_vars

----------------------------------------------------------------------------
\* parseYamlFrontmatter on the text of a file.  A text is the sequence of
\* its lines (the pieces between the line ends); a line is a sequence of
\* characters and of words, every word a run of word characters (\w).

WordFrags == {"argument", "hint", "name", "description", "_", "v", "w"}

\* /^\s*$/ of a line, the test `!line.trim()`.
Blank(line) == Trim(line) = <<>>

\* `---\s*` up to the line end.
IsFence(line) ==
  /\ Len(line) >= 3
  /\ \A i \in 1..3 : line[i] = "-"
  /\ \A i \in 4..Len(line) : line[i] = " "

\* The match of /^---\s*\n(.*?)\n---\s*\n/s on the text: the opening fence
\* is line 1, its \s* also takes the blank lines 2..open (as many as leave a
\* match), capture group 1 is the lines open+1..close-1 and the closing
\* fence is the first fence line after them that a line end follows.
FenceAfter(lines, open, close) ==
  /\ open + 2 <= close
  /\ close < Len(lines)
  /\ IsFence(lines[close])

Opens(lines, open) ==
  /\ lines # <<>>
  /\ IsFence(lines[1])
  /\ \A i \in 2..open : Blank(lines[i])
  /\ \E close \in 1..Len(lines) : FenceAfter(lines, open, close)

yamlPattern(lines) ==
  IF \E open \in 1..Len(lines) : Opens(lines, open)
  THEN LET open == CHOOSE o \in 1..Len(lines) :
                     Opens(lines, o) /\ \A p \in 1..Len(lines) : Opens(lines, p) => p <= o
           close == CHOOSE c \in 1..Len(lines) :
                      /\ FenceAfter(lines, open, c)
                      /\ \A d \in 1..Len(lines) : FenceAfter(lines, open, d) => c <= d
       IN  [found |-> TRUE, open |-> open, close |-> close]
  ELSE [found |-> FALSE, open |-> 0, close |-> 0]

\* The number of word characters a line starts with.
RECURSIVE WordPrefix(_)
WordPrefix(line) ==
  IF line # <<>> /\ Head(line) \in WordFrags THEN 1 + WordPrefix(Tail(line)) ELSE 0

RECURSIVE SpacePrefix(_)
SpacePrefix(line) ==
  IF line # <<>> /\ Head(line) = " " THEN 1 + SpacePrefix(Tail(line)) ELSE 0

\* /^\s+-\s+(.+)$/ and its group 1, trimmed.
listMatch(line) ==
  LET k == SpacePrefix(line)
  IN  /\ k >= 1
      /\ Len(line) >= k + 3
      /\ line[k + 1] = "-"
      /\ line[k + 2] = " "

listItem(line) == Trim(SubSeq(line, SpacePrefix(line) + 2, Len(line)))

\* /^(\w+):\s*(.*)$/, its group 1 and its group 2, trimmed.
kvMatch(line) ==
  LET n == WordPrefix(line)
  IN  n >= 1 /\ Len(line) > n /\ line[n + 1] = ":"

kvKey(line) == SubSeq(line, 1, WordPrefix(line))

kvValue(line) == Trim(SubSeq(line, WordPrefix(line) + 2, Len(line)))

\* The quote handling (scanner.ts 109-113).
Unquote(value) ==
  IF /\ value # <<>>
     /\ \/ Head(value) = "\"" /\ value[Len(value)] = "\""
        \/ Head(value) = "'" /\ value[Len(value)] = "'"
  THEN SubSeq(value, 2, Len(value) - 1)
  ELSE value

\* result[key] = value on the object `result`.
Put(result, key, value) ==
  [k \in DOMAIN result \cup {key} |-> IF k = key THEN value ELSE result[k]]

\* metadata[key]: undefined when the key was never set.
Get(metadata, key) == IF key \in DOMAIN metadata THEN metadata[key] ELSE Absent

\* The parser before the first line: result = {}, currentKey = null (<<>>),
\* currentList = [].
ParseStart == [result |-> [k \in {} |-> Absent], currentKey |-> <<>>, currentList |-> <<>>]

\* The commit that also stores a list without items.
saveList_storesEmpty(st) ==
  IF st.currentKey # <<>>
  THEN [st EXCEPT !.result = Put(st.result, st.currentKey[1], ListVal(st.currentList)),
                  !.currentList = <<>>]
  ELSE st

\* A pending list is stored under currentKey (scanner.ts 100-103, 124-126).
saveList(st) ==
  IF st.currentKey # <<>> /\ st.currentList # <<>>
  THEN [st EXCEPT !.result = Put(st.result, st.currentKey[1], ListVal(st.currentList)),
                  !.currentList = <<>>]
  ELSE st

\* The turn that takes a list item whether or not a key is dangling.
parseLine_itemsWithoutKey(st, line) ==
  IF Blank(line) THEN st
  ELSE IF listMatch(line)
  THEN [st EXCEPT !.currentList = Append(@, listItem(line))]
  ELSE IF kvMatch(line)
  THEN LET saved == saveList(st)
       IN  IF kvValue(line) # <<>>
           THEN [saved EXCEPT !.result = Put(saved.result, kvKey(line),
                                             Scalar(Unquote(kvValue(line)))),
                              !.currentKey = <<>>]
           ELSE [saved EXCEPT !.currentKey = <<kvKey(line)>>]
  ELSE st

\* One turn of the loop over the lines (scanner.ts 83-121).
parseLine(st, line) ==
  IF Blank(line) THEN st
  ELSE IF listMatch(line) /\ st.currentKey # <<>>
  THEN [st EXCEPT !.currentList = Append(@, listItem(line))]
  ELSE IF kvMatch(line)
  THEN LET saved == saveList(st)
       IN  IF kvValue(line) # <<>>
           THEN [saved EXCEPT !.result = Put(saved.result, kvKey(line),
                                             Scalar(Unquote(kvValue(line)))),
                              !.currentKey = <<>>]
           ELSE [saved EXCEPT !.currentKey = <<kvKey(line)>>]
  ELSE st

RECURSIVE parseLines(_, _)
parseLines(st, lines) ==
  IF lines = <<>> THEN st ELSE parseLines(parseLine(st, Head(lines)), Tail(lines))

parseYamlFrontmatter(content) ==
  LET match == yamlPattern(content)
  IN  IF ~match.found THEN ParseStart.result
      ELSE saveList(parseLines(ParseStart,
                               SubSeq(content, match.open + 1, match.close - 1))).result

\* `value || ''`.
OrEmpty(value) == IF Truthy(value) THEN value ELSE Scalar(<<>>)

\* What scanCommands reads from the text of a command file
\* (scanner.ts 345-358).
CommandFieldsOf(content) ==
  LET metadata == parseYamlFrontmatter(content)
  IN  [kind |-> "command",
       description |-> OrEmpty(Get(metadata, <<"description">>)),
       argumentHint |-> OrEmpty(Get(metadata, <<"argument", "-", "hint">>))]

----------------------------------------------------------------------------
\* scanCommands on the text of one command file.

\* Greatest number of lines of a text.
MaxLines == 4

CommandLines ==
  { <<"-", "-", "-">>,
    <<>>,
    <<"argument", "-", "hint", ":", " ", "v">>,
    <<"argument", "-", "hint", ":", " ", "\"", "v", "\"", " ">>,
    <<"argument", "-", "hint", ":">>,
    <<"description", ":", " ", "'", "w", "'">>,
    <<"description", ":">>,
    <<" ", "-", " ", "w">> }

WriteCommandLine(line) ==
  /\ input.kind \in {"none", "command"}
  /\ output = NoOutput
  /\ Len(input.text) < MaxLines
  /\ input' = [kind |-> "command", text |-> Append(input.text, line)]
  /\ UNCHANGED <<tree, outFile, last, collector, attempts, output>>

ReadCommandFile ==
  /\ input.kind = "command"
  /\ output = NoOutput
  /\ output' = CommandFieldsOf(input.text)
  /\ UNCHANGED <<tree, outFile, last, collector, attempts, input>>

NextCommandFile ==
  \/ \E line \in CommandLines : WriteCommandLine(line)
  \/ ReadCommandFile

SpecCommandFile == Init /\ [][NextCommandFile]_vars

----------------------------------------------------------------------------
\* The trigger lines of a skill (scanner.ts 276-290).  The body is one
\* sequence of characters with the line ends "\n" in it.

\* Greatest number of trigger lines kept: slice(0, 5).
TriggerCap == 5

\* The lines of a text joined by line ends.
RECURSIVE JoinText(_)
JoinText(lines) ==
  IF lines = <<>> THEN <<>>
  ELSE IF Len(lines) = 1 THEN Head(lines)
  ELSE Head(lines) \o <<"\n">> \o JoinText(Tail(lines))

\* String.prototype.split('\n').
RECURSIVE SplitLines(_)
SplitLines(text) ==
  IF \E i \in 1..Len(text) : text[i] = "\n"
  THEN LET i == CHOOSE j \in 1..Len(text) : text[j] = "\n" /\ \A k \in 1..(j - 1) : text[k] # "\n"
       IN  <<SubSeq(text, 1, i - 1)>> \o SplitLines(SubSeq(text, i + 1, Len(text)))
  ELSE <<text>>

\* \s on the characters of a text.
IsSpace(c) == c \in {" ", "\n"}

RECURSIVE TrimTextLeft(_)
TrimTextLeft(text) ==
  IF text # <<>> /\ IsSpace(Head(text)) THEN TrimTextLeft(Tail(text)) ELSE text

RECURSIVE TrimTextRight(_)
TrimTextRight(text) ==
  IF text # <<>> /\ IsSpace(text[Len(text)])
  THEN TrimTextRight(SubSeq(text, 1, Len(text) - 1))
  ELSE text

\* String.prototype.trim on a text of several lines.
TrimText(text) == TrimTextRight(TrimTextLeft(text))

\* extractBodyContent: the match of yamlPattern is cut off the front, the
\* rest is trimmed.
extractBodyContent(content) ==
  LET match == yamlPattern(content)
  IN  IF match.found
      THEN TrimText(JoinText(SubSeq(content, match.close + 1, Len(content))))
      ELSE TrimText(JoinText(content))

\* The least element of a set of indices that is not empty.
Least(S) == CHOOSE i \in S : \A j \in S : i <= j

\* The heading word of the trigger pattern under the flag i.  The Korean
\* alternative of the pattern is not spelled with these characters.
TriggerWords == {"Trigger", "trigger"}

\* `##\s*(?:Triggers?)` matches at index i of the body; the index of the word.
WordAfter(body, i) == Least({j \in (i + 2)..(Len(body) + 1) : j > Len(body) \/ ~IsSpace(body[j])})

HeadingAt(body, i) ==
  /\ i + 2 <= Len(body)
  /\ body[i] = "#" /\ body[i + 1] = "#"
  /\ WordAfter(body, i) <= Len(body)
  /\ body[WordAfter(body, i)] \in TriggerWords

\* `(?=\n##|\Z)` holds at index p: without the flag u, \Z is the letter Z,
\* and z under the flag i.
StopsAt(body, p) ==
  /\ p <= Len(body)
  /\ \/ body[p] \in {"z", "Z"}
     \/ /\ p + 2 <= Len(body)
        /\ body[p] = "\n" /\ body[p + 1] = "#" /\ body[p + 2] = "#"

\* body.match(/##\s*(?:Triggers?|...).*?\n(.*?)(?=\n##|\Z)/is): group 1
\* starts after the first line end behind the heading word and ends before
\* the first index where the lookahead holds; there is no match when the
\* heading, the line end or such an index is missing.
triggerMatch(body) ==
  LET heads == {i \in 1..Len(body) : HeadingAt(body, i)}
      word == WordAfter(body, Least(heads))
      ends == {n \in (word + 1)..Len(body) : body[n] = "\n"}
      start == Least(ends) + 1
      stops == {p \in start..Len(body) : StopsAt(body, p)}
  IN  IF heads = {} \/ ends = {} \/ stops = {}
      THEN [found |-> FALSE, group |-> <<>>]
      ELSE [found |-> TRUE, group |-> SubSeq(body, start, Least(stops) - 1)]

\* line.replace(/^-\s*/, '').trim()
stripItem(line) ==
  IF line # <<>> /\ Head(line) = "-" THEN Trim(Tail(line)) ELSE Trim(line)

\* The triggers of a skill with this body (scanner.ts 280-290).
triggersOf(body) ==
  LET match == triggerMatch(body)
      triggerLines == SplitLines(TrimText(match.group))
      kept == SelectSeq(triggerLines,
                        LAMBDA line : Trim(line) # <<>> /\ Head(Trim(line)) = "-")
      items == [i \in 1..Len(kept) |-> stripItem(kept[i])]
  IN  IF match.found
      THEN SubSeq(items, 1, IF Len(items) < TriggerCap THEN Len(items) ELSE TriggerCap)
      ELSE <<>>

\* What scanSkills reads from the text of a SKILL.md (scanner.ts 275-290).
SkillFieldsOf(content) ==
  [kind |-> "skill",
   body |-> extractBodyContent(content),
   triggers |-> triggersOf(extractBodyContent(content))]

----------------------------------------------------------------------------
\* scanSkills on the text of one SKILL.md, put together from blocks of
\* lines.

\* Greatest number of blocks of a SKILL.md.
MaxBlocks == 4

SkillBlocks ==
  { << <<"#", "#", " ", "Trigger", "s">> >>,
    << <<"#", "#", "#", "trigger">> >>,
    << <<"#", "#", " ", "w">> >>,
    << <<"-", " ", "a">> >>,
    << <<" ", "-", " ", "b">> >>,
    << <<"-", " ", "a", "z", "b">> >>,
    << <<"w">> >>,
    << <<"-", " ", "a">>, <<"-", " ", "b">>, <<"-", " ", "a">>,
       <<"-", " ", "b">>, <<"-", " ", "a">>, <<"-", " ", "w">> >>,
    << <<"-", "-", "-">>, <<"name", ":", " ", "w">>, <<"-", "-", "-">>, <<>> >> }

WriteSkillBlock(block) ==
  /\ input.kind \in {"none", "skill"}
  /\ output = NoOutput
  /\ (IF input.kind = "none" THEN 0 ELSE input.blocks) < MaxBlocks
  /\ input' = [kind |-> "skill", text |-> input.text \o block,
               blocks |-> (IF input.kind = "none" THEN 0 ELSE input.blocks) + 1]
  /\ UNCHANGED <<tree, outFile, last, collector, attempts, output>>

ReadSkillFile ==
  /\ input.kind = "skill"
  /\ output = NoOutput
  /\ output' = SkillFieldsOf(input.text)
  /\ UNCHANGED <<tree, outFile, last, collector, attempts, input>>

NextSkillFile ==
  \/ \E block \in SkillBlocks : WriteSkillBlock(block)
  \/ ReadSkillFile

SpecSkillFile == Init /\ [][NextSkillFile]_vars

----------------------------------------------------------------------------
\* The system prompt of an agent (scanner.ts 211).

\* The length up to which a body is stored whole.
PromptLimit == 500

Suffix == <<".", ".", ".">>

\* The body cut one character early: `>=` in place of `>`.
systemPromptOf_cutAtLimit(body) ==
  IF Len(body) >= PromptLimit THEN SubSeq(body, 1, PromptLimit) \o Suffix ELSE body

\* body.length > 500 ? body.slice(0, 500) + '...' : body
systemPromptOf(body) ==
  IF Len(body) > PromptLimit THEN SubSeq(body, 1, PromptLimit) \o Suffix ELSE body

\* Greatest length of an agent body.
MaxBody == 502

\* The body of n characters; the character changes from index to index.
BodyOfLength(n) ==
  [i \in 1..n |-> IF i % 3 = 0 THEN "w" ELSE IF i % 3 = 1 THEN "a" ELSE "b"]

WriteAgentBody(n) ==
  /\ input = NoInput
  /\ input' = [kind |-> "agent", text |-> BodyOfLength(n)]
  /\ UNCHANGED <<tree, outFile, last, collector, attempts, output>>

ReadAgentBody ==
  /\ input.kind = "agent"
  /\ output = NoOutput
  /\ output' = [kind |-> "agent", systemPrompt |-> systemPromptOf(input.text)]
  /\ UNCHANGED <<tree, outFile, last, collector, attempts, input>>

NextAgentBody ==
  \/ \E n \in 0..MaxBody : WriteAgentBody(n)
  \/ ReadAgentBody

SpecAgentBody == Init /\ [][NextAgentBody]_vars

----------------------------------------------------------------------------
\* parseYamlFrontmatter and extractBodyContent on the text of one document.

\* Greatest number of lines of a document.
MaxDocLines == 5

DocLines ==
  { <<"-", "-", "-">>,
    <<>>,
    <<"name", ":", " ", "v">>,
    <<"w">> }

WriteDocLine(line) ==
  /\ input.kind \in {"none", "document"}
  /\ output = NoOutput
  /\ Len(input.text) < MaxDocLines
  /\ input' = [kind |-> "document", text |-> Append(input.text, line)]
  /\ UNCHANGED <<tree, outFile, last, collector, attempts, output>>

\* The two calls the scanners make on the content of a file
\* (scanner.ts 188-189).
ReadDocument ==
  /\ input.kind = "document"
  /\ output = NoOutput
  /\ output' = [kind |-> "document",
                metadata |-> parseYamlFrontmatter(input.text),
                body |-> extractBodyContent(input.text)]
  /\ UNCHANGED <<tree, outFile, last, collector, attempts, input>>

NextDocument ==
  \/ \E line \in DocLines : WriteDocLine(line)
  \/ ReadDocument

SpecDocument == Init /\ [][NextDocument]_vars

----------------------------------------------------------------------------
\* The loop of parseYamlFrontmatter over the lines of a block, one turn at
\* a time (scanner.ts 83-126).

\* Greatest number of lines of a block.
MaxYamlLines == 4

YamlLines ==
  { <<"name", ":">>,
    <<"description", ":">>,
    <<"name", ":", " ", "v">>,
    <<"description", ":", " ", "\"">>,
    <<"description", ":", " ", "\"", "w", "\"", " ">>,
    <<"description", ":", " ", "'", "w", "\"">>,
    <<" ", "-", " ", "w">>,
    <<" ", "-", " ", " ">>,
    <<"w">>,
    <<>> }

\* The parser state between two turns.
ParserNow == IF output.kind = "parser" THEN output.st ELSE ParseStart

\* One turn of the loop: the next line of yamlContent.split('\n').
FeedLine(line) ==
  /\ input.kind \in {"none", "yaml"}
  /\ output.kind \in {"none", "parser"}
  /\ output.kind = "parser" => ~output.done
  /\ Len(input.text) < MaxYamlLines
  /\ input' = [kind |-> "yaml", text |-> Append(input.text, line)]
  /\ output' = [kind |-> "parser", st |-> parseLine(ParserNow, line), done |-> FALSE]
  /\ UNCHANGED <<tree, outFile, last, collector, attempts>>

\* The lines are used up: the final commit and the return (scanner.ts
\* 123-128); `lists` is what parseListField makes of every key, as the
\* scanners call it on the keys tools, subagents and skills (191-193).
EndOfLines ==
  /\ input.kind \in {"none", "yaml"}
  /\ output.kind \in {"none", "parser"}
  /\ output.kind = "parser" => ~output.done
  /\ LET result == saveList(ParserNow).result
     IN  output' = [kind |-> "parser", st |-> saveList(ParserNow), done |-> TRUE,
                    lists |-> [k \in DOMAIN result |-> parseListField(result[k])]]
  /\ UNCHANGED <<tree, outFile, last, collector, attempts, input>>

NextParser ==
  \/ \E line \in YamlLines : FeedLine(line)
  \/ EndOfLines

SpecParser == Init /\ [][NextParser]_vars

----------------------------------------------------------------------------
\* findRelationships on its own: the lists are those scanned from the trees
\* with both scopes requested, and the reads of the content pass can fail
\* for agents whose file was readable when it was scanned.

\* fs.readFile rejected.
ReadFailed == [ok |-> FALSE, text |-> <<>>]

\* One more agent file: y.md with the body `/X`.
RelateEntries ==
  AgentEntries \cup {[stem |-> <<"y">>, file |-> [plain EXCEPT !.body = <<"/", "X">>]]}

\* One call findRelationships(agents, skills, commands, localClaudePath);
\* the reads of the files in `failing` are rejected.
Relate(failing) ==
  LET loc == ScanScope(tree["local"], "local", tree["local"].exists)
      glob == ScanScope(tree["global"], "global", tree["global"].exists)
      agents == mergeNodes(loc.agents, glob.agents)
      skills == mergeNodes(loc.skills, glob.skills)
      commands == mergeNodes(loc.commands, glob.commands)
      paths == {agents[i].filePath : i \in 1..Len(agents)}
      steady == [p \in paths |-> ProjectRead(tree, p)]
      reads == [p \in paths |-> IF p \in failing THEN ReadFailed ELSE steady[p]]
  IN  /\ output = NoOutput
      /\ ~loc.threw /\ ~glob.threw
      /\ failing \subseteq paths
      /\ output' = [kind |-> "relate", agents |-> agents, skills |-> skills,
                    commands |-> commands, steady |-> steady, reads |-> reads,
                    result |-> findRelationships(agents, skills, commands, reads)]
      /\ UNCHANGED <<tree, outFile, last, collector, attempts, input>>

NextRelate ==
  \/ /\ output = NoOutput
     /\ \/ \E s \in Scopes : MkRoot(s)
        \/ \E s \in Scopes, e \in RelateEntries : AddAgent(s, e)
        \/ \E s \in Scopes, e \in SkillEntries : AddSkill(s, e)
        \/ \E s \in Scopes : BreakSkills(s)
        \/ \E s \in Scopes, e \in CommandEntries : AddCommand(s, e)
  \/ \E failing \in SUBSET {AgentFilePath(s, stem) : s \in Scopes, stem \in {e.stem : e \in RelateEntries}} :
       Relate(failing)

SpecRelate == Init /\ [][NextRelate]_vars

----------------------------------------------------------------------------
\* run() of the command line (cli.js 16-171), one step per awaited call.
\* The helpers of utils.js and server.js and the package `open` are calls
\* that return or throw; `input` holds the options, `output` the place of
\* the run and what it has done.

\* The agent files of the trees the command line is run on: y.md alone.
CliEntries == {e \in AgentEntries : e.stem = <<"y">>}

\* A data file left by an earlier run of the scanner on both scopes.
EarlierRun ==
  LET scanned == scanTrees(tree, TRUE, TRUE)
      call == writeResult(scanned, "ok")
  IN  /\ output = NoOutput
      /\ last = NoCall
      /\ outFile = NoFile
      /\ call.status = "ok"
      /\ outFile' = fileAfter(outFile, scanned.threw, "ok", call.graph)
      /\ tree' = treeAfter(tree, scanned.threw, "ok")
      /\ UNCHANGED <<last, harness>>

\* process.exit(1): nothing of the run follows.
Exit1(run) == [run EXCEPT !.pc = "exited", !.exit = 1]

\* The options are parsed and the Node.js version is checked (cli.js 17-50).
CliStart(scan, open, local, global, nodeOk) ==
  /\ output = NoOutput
  /\ last = NoCall
  /\ input' = [kind |-> "options", text |-> <<>>, scan |-> scan, open |-> open]
  /\ LET run == [kind |-> "run", pc |-> "validate",
                 includeLocal |-> ~global, includeGlobal |-> ~local,
                 scanCalls |-> 0, server |-> FALSE, browser |-> FALSE, exit |-> 0,
                 dataAtStart |-> outFile]
     IN  output' = IF nodeOk THEN run ELSE Exit1(run)
  /\ UNCHANGED <<tree, outFile, last, collector, attempts>>

\* The checks of the two roots (cli.js 55-76); isValid is what
\* validateClaudeProject(cwd) returned.
CliValidate(isValid) ==
  /\ output.kind = "run" /\ output.pc = "validate"
  /\ LET hasGlobal == tree["global"].exists
     IN  output' = IF \/ ~isValid /\ ~hasGlobal
                      \/ ~isValid /\ output.includeLocal /\ ~output.includeGlobal
                   THEN Exit1(output)
                   ELSE [output EXCEPT !.pc = "ensure"]
  /\ UNCHANGED <<tree, outFile, last, collector, attempts, input>>

\* The place of the run after a call that returned or threw: a throw is
\* caught at cli.js 163-170, which ends the process with code 1.
afterCall(run, returned, next) ==
  IF returned THEN [run EXCEPT !.pc = next] ELSE Exit1(run)

\* await ensureVisualizerDir(vizDir) (cli.js 84-85): `.claude/visualizer` is
\* made, and the local root with it, or the call throws.
CliEnsureDir(returned) ==
  /\ output.kind = "run" /\ output.pc = "ensure"
  /\ output' = afterCall(output, returned, "scan")
  /\ tree' = IF returned THEN [tree EXCEPT !["local"].exists = TRUE] ELSE tree
  /\ UNCHANGED <<outFile, last, collector, attempts, input>>

\* The run that goes on to the server whatever scanProject did.
afterScan_carriesOn(run, call) ==
  [run EXCEPT !.pc = "port", !.scanCalls = @ + 1]

\* The place of the run after `await scanProject(...)` (cli.js 93, 163-170).
afterScan(run, call) ==
  afterCall([run EXCEPT !.scanCalls = @ + 1], call.status = "ok", "port")

\* Step 3 (cli.js 90-105): scanProject is awaited unless options.scan is
\* false.
CliScan ==
  /\ output.kind = "run" /\ output.pc = "scan"
  /\ IF input.scan
     THEN LET scanned == scanTrees(tree, output.includeLocal, output.includeGlobal)
          IN  \E io \in IoOutcomes :
                LET call == writeResult(scanned, io)
                IN  /\ last' = call
                    /\ outFile' = fileAfter(outFile, scanned.threw, io, call.graph)
                    /\ tree' = treeAfter(tree, scanned.threw, io)
                    /\ output' = afterScan(output, call)
     ELSE /\ output' = [output EXCEPT !.pc = "port"]
          /\ UNCHANGED <<tree, outFile, last>>
  /\ UNCHANGED <<collector, attempts, input>>

\* await findAvailablePort(requestedPort) (cli.js 107-108).
CliFindPort(returned) ==
  /\ output.kind = "run" /\ output.pc = "port"
  /\ output' = afterCall(output, returned, "server")
  /\ UNCHANGED <<tree, outFile, last, collector, attempts, input>>

\* await startServer({...}) (cli.js 116-121).
CliStartServer(returned) ==
  /\ output.kind = "run" /\ output.pc = "server"
  /\ output' = afterCall([output EXCEPT !.server = returned], returned, "browser")
  /\ UNCHANGED <<tree, outFile, last, collector, attempts, input>>

\* Step 6 (cli.js 125-134): open(url) unless options.open is false; a
\* failure to open is caught on the spot.
CliOpenBrowser(returned) ==
  /\ output.kind = "run" /\ output.pc = "browser"
  /\ output' = [output EXCEPT !.pc = "ready", !.browser = input.open /\ returned]
  /\ UNCHANGED <<tree, outFile, last, collector, attempts, input>>

NextCli ==
  \/ /\ output = NoOutput
     /\ \/ \E s \in Scopes : MkRoot(s)
        \/ \E s \in Scopes, e \in CliEntries : AddAgent(s, e)
        \/ \E s \in Scopes : BreakSkills(s)
  \/ EarlierRun
  \/ \E scan, open, local, global, nodeOk \in BOOLEAN : CliStart(scan, open, local, global, nodeOk)
  \/ \E isValid \in BOOLEAN : CliValidate(isValid)
  \/ \E returned \in BOOLEAN : CliEnsureDir(returned)
  \/ CliScan
  \/ \E returned \in BOOLEAN : CliFindPort(returned)
  \/ \E returned \in BOOLEAN : CliStartServer(returned)
  \/ \E returned \in BOOLEAN : CliOpenBrowser(returned)

SpecCli == Init /\ [][NextCli]_vars

----------------------------------------------------------------------------
\* Properties.

\* The graph written by the call in progress (defined when it succeeded).
Graph == last.graph[1]

Completed == last.status = "ok"

IdsOf(nodes) == {nodes[i].id : i \in 1..Len(nodes)}

OfType(nodes, type) == SelectSeq(nodes, LAMBDA n : n.type = type)

\* What the scanners of one scope returned for a kind.
Scanned(scope, type) ==
  LET r == IF scope = "local" THEN last.local ELSE last.global
  IN  CASE type = "agent" -> r.agents
        [] type = "skill" -> r.skills
        [] type = "command" -> r.commands

Kinds == {"agent", "skill", "command"}

\* The id-stem of a node: its id without the kind prefix.
StemOf(node) == Tail(node.id)

\* C1: in the graph written by scanProject no two nodes share an id, and an
\* id returned by both the local and the global scan of a kind appears on
\* the local entry only.
C1_UniqueIdsLocalWins ==
  Completed =>
    /\ \A i, j \in 1..Len(Graph.nodes) :
         Graph.nodes[i].id = Graph.nodes[j].id => i = j
    /\ \A type \in Kinds :
         \A id \in IdsOf(Scanned("local", type)) \cap IdsOf(Scanned("global", type)) :
           /\ \E i \in 1..Len(Graph.nodes) :
                Graph.nodes[i].id = id /\ Graph.nodes[i].scope = "local"
           /\ \A i \in 1..Len(Graph.nodes) :
                Graph.nodes[i].id = id => Graph.nodes[i].scope = "local"

C1_Witness ==
  /\ Completed
  /\ IdsOf(last.local.agents) \cap IdsOf(last.global.agents) # {}
  /\ Len(Graph.nodes) >= 2

\* The positions of the global list whose id is no local id.
KeptPositions(L, G) == {j \in 1..Len(G) : \A i \in 1..Len(L) : L[i].id # G[j].id}

\* C2: the merged list of a kind is the local list in its order followed by
\* exactly the global entries, in their order, whose id is no local id.
C2_MergeIsLocalThenNewGlobal ==
  Completed =>
    \A type \in Kinds :
      LET L == Scanned("local", type)
          G == Scanned("global", type)
          M == OfType(Graph.nodes, type)
          kept == KeptPositions(L, G)
      IN  /\ Len(M) = Len(L) + Cardinality(kept)
          /\ \A i \in 1..Len(L) : M[i] = L[i]
          /\ \A j \in kept :
               M[Len(L) + Cardinality({k \in kept : k <= j})] = G[j]

C2_Witness ==
  /\ Completed
  /\ \E type \in Kinds :
       LET L == Scanned("local", type)
           G == Scanned("global", type)
       IN  /\ L # <<>>
           /\ KeptPositions(L, G) # {}
           /\ KeptPositions(L, G) # 1..Len(G)

\* The lookup key of a declared name.
DeclaredKey(name) == Trim(ToLower(name))

\* Node n answers to the lookup key.
AnswersTo(n, key) == key = ToLower(n.name.text) \/ key = ToLower(StemOf(n))

\* C3: every edge joins two nodes of the merged node set, and a calls edge
\* exists only for a declared subagent name that some agent answers to: a
\* declared name that matches no node gives no edge and no error.
C3_EdgesJoinNodes ==
  Completed =>
    \A k \in 1..Len(Graph.edges) :
      LET e == Graph.edges[k]
      IN  /\ e.source \in IdsOf(Graph.nodes)
          /\ e.target \in IdsOf(Graph.nodes)
          /\ e.type = "calls" =>
               \E i, j \in 1..Len(Graph.nodes) :
                 /\ Graph.nodes[i].id = e.source
                 /\ Graph.nodes[j].id = e.target
                 /\ Graph.nodes[i].type = "agent"
                 /\ \E p \in 1..Len(Graph.nodes[i].subagents) :
                      AnswersTo(Graph.nodes[j], DeclaredKey(Graph.nodes[i].subagents[p]))

C3_Witness ==
  /\ Completed
  /\ Graph.edges # <<>>
  /\ \E i \in 1..Len(Graph.nodes) :
       /\ Graph.nodes[i].type = "agent"
       /\ \E p \in 1..Len(Graph.nodes[i].subagents) :
            \A j \in 1..Len(Graph.nodes) :
              ~AnswersTo(Graph.nodes[j], DeclaredKey(Graph.nodes[i].subagents[p]))

SamePair(a, b) == a.source = b.source /\ a.target = b.target

\* C4: the collector holds at most one edge per ordered pair (source,
\* target), and that edge has the type of the first attempt to add the pair.
C4_OneEdgePerPairFirstType ==
  /\ \A i, j \in 1..Len(collector.edges) :
       SamePair(collector.edges[i], collector.edges[j]) => i = j
  /\ \A i \in 1..Len(collector.edges) :
       \E k \in 1..Len(attempts) :
         /\ SamePair(attempts[k], collector.edges[i])
         /\ attempts[k].type = collector.edges[i].type
         /\ \A h \in 1..(k - 1) : ~SamePair(attempts[h], collector.edges[i])

C4_Witness ==
  /\ Len(collector.edges) = 1
  /\ \E h, k \in 1..Len(attempts) :
       /\ h < k
       /\ SamePair(attempts[h], attempts[k])
       /\ attempts[h].type # attempts[k].type

HasEdge(source, target, type) ==
  \E k \in 1..Len(Graph.edges) :
    Graph.edges[k] = [source |-> source, target |-> target, type |-> type]

\* C5: every declared subagent name gives a calls edge to every agent that
\* answers to it by display name or id-stem, and every declared skill name a
\* uses edge to every skill that answers to it, also when several nodes
\* share a lookup key.
C5_DeclaredNamesReachEveryMatch ==
  Completed =>
    \A i \in 1..Len(Graph.nodes) :
      LET A == Graph.nodes[i]
      IN  A.type = "agent" =>
            /\ \A p \in 1..Len(A.subagents) : \A j \in 1..Len(Graph.nodes) :
                 (/\ Graph.nodes[j].type = "agent"
                  /\ AnswersTo(Graph.nodes[j], DeclaredKey(A.subagents[p])))
                 => HasEdge(A.id, Graph.nodes[j].id, "calls")
            /\ \A p \in 1..Len(A.skills) : \A j \in 1..Len(Graph.nodes) :
                 (/\ Graph.nodes[j].type = "skill"
                  /\ AnswersTo(Graph.nodes[j], DeclaredKey(A.skills[p])))
                 => HasEdge(A.id, Graph.nodes[j].id, "uses")

\* The file an agent node was scanned from, in the tree of its scope.
SourceFile(a) ==
  LET dir == tree[a.scope].agents
  IN  dir[CHOOSE i \in 1..Len(dir) : dir[i].stem = StemOf(a)].file

PrefixOf(n) == IF n.type = "skill" THEN "skill:" ELSE "command:"

\* C6: the content pass covers local and global agents alike: for every
\* agent of the merged set whose source file is readable and every skill or
\* command that the pass's substring test finds in that file, the output has
\* a uses edge from the agent to it.
C6_ContentPassCoversAllScopes ==
  Completed =>
    \A i, j \in 1..Len(Graph.nodes) :
      LET a == Graph.nodes[i]
          n == Graph.nodes[j]
      IN  (/\ a.type = "agent"
           /\ n.type \in {"skill", "command"}
           /\ SourceFile(a).readable
           /\ contentMatch(ToLower(AgentFileText(SourceFile(a))), n, PrefixOf(n)))
          => HasEdge(a.id, n.id, "uses")

\* C7: for an agent whose file the content pass read, a uses edge to a skill
\* or command exists exactly when its lower-cased display name or its
\* lower-cased id-stem occurs in the lower-cased file text.
C7_SubstringTestFoldsBothKeys ==
  Completed =>
    \A i, j \in 1..Len(Graph.nodes) :
      LET a == Graph.nodes[i]
          n == Graph.nodes[j]
      IN  (/\ a.type = "agent"
           /\ n.type \in {"skill", "command"}
           /\ ProjectRead(tree, a.filePath).ok)
          => LET text == ToLower(ProjectRead(tree, a.filePath).text)
             IN  HasEdge(a.id, n.id, "uses")
                   <=> \/ Includes(text, ToLower(n.name.text))
                       \/ Includes(text, ToLower(StemOf(n)))

\* C8: every edge starts at an agent; its type is calls exactly when its
\* target is an agent and uses exactly when its target is a skill or a
\* command.
C8_TypeFollowsTargetKind ==
  Completed =>
    \A k \in 1..Len(Graph.edges) :
      \E i, j \in 1..Len(Graph.nodes) :
        /\ Graph.nodes[i].id = Graph.edges[k].source
        /\ Graph.nodes[i].type = "agent"
        /\ Graph.nodes[j].id = Graph.edges[k].target
        /\ Graph.edges[k].type = "calls" <=> Graph.nodes[j].type = "agent"
        /\ Graph.edges[k].type = "uses" <=> Graph.nodes[j].type \in {"skill", "command"}

C8_Witness ==
  /\ Completed
  /\ \E k \in 1..Len(Graph.edges) : Graph.edges[k].type = "calls"
  /\ \E k \in 1..Len(Graph.edges) : Graph.edges[k].type = "uses"

\* C9: scanProject fails only for a missing scope root or for a failure to
\* write the output; whatever the files hold and whichever read or listing
\* beneath an existing root fails, it completes.
C9_FailsOnlyOnRootOrWrite ==
  last.status = "error" => last.error \in {"missing-root", "write"}

\* The three scanners of the scope ran in the call in progress.
ScannersRan(scope) ==
  /\ last.status \in {"ok", "error"}
  /\ last.error \notin {"missing-root", "listing"}
  /\ IF scope = "local" THEN last.includeLocal /\ last.hasLocal
     ELSE last.includeGlobal /\ last.hasGlobal

\* The candidate files of a scanner, in listing order.
Candidates(scope, type) ==
  CASE type = "agent" -> tree[scope].agents
    [] type = "skill" -> SelectSeq(tree[scope].skills, LAMBDA e : e.file.hasSkillFile)
    [] type = "command" -> tree[scope].commands

KindPrefix(type) ==
  CASE type = "agent" -> "agent:"
    [] type = "skill" -> "skill:"
    [] type = "command" -> "command:"

WarningsOf(scope, type) ==
  SelectSeq((IF scope = "local" THEN last.local ELSE last.global).warnings,
            LAMBDA w : w.kind = type)

\* C10: in each scanner a candidate whose read fails gives no node and one
\* warning, and every readable candidate of the directory gives exactly one
\* node, whatever happened to its siblings.
C10_FailuresStayWithTheirFile ==
  \A scope \in Scopes : \A type \in Kinds :
    ScannersRan(scope) =>
      LET good == SelectSeq(Candidates(scope, type), LAMBDA e : e.file.readable)
          bad == SelectSeq(Candidates(scope, type), LAMBDA e : ~e.file.readable)
          nodes == Scanned(scope, type)
          warned == WarningsOf(scope, type)
      IN  /\ Len(nodes) = Len(good)
          /\ \A i \in 1..Len(good) :
               /\ nodes[i].id = <<KindPrefix(type)>> \o good[i].stem
               /\ nodes[i].scope = scope
          /\ Len(warned) = Len(bad)
          /\ \A i \in 1..Len(bad) : warned[i].stem = bad[i].stem

C10_Witness ==
  \E scope \in Scopes :
    /\ ScannersRan(scope)
    /\ \E i, j \in 1..Len(tree[scope].agents) :
         /\ i < j
         /\ ~tree[scope].agents[i].file.readable
         /\ tree[scope].agents[j].file.readable
    /\ Len(Scanned(scope, "agent")) = 1

----------------------------------------------------------------------------
\* Steps of scanProject, seen from the state before and the state after.

\* This step is a call of scanProject.
CallStep == last' # last /\ last'.status # "none"

\* A scope the call asked for has a root in the trees the call starts from.
RequestedRootExists ==
  \/ last'.includeLocal /\ tree["local"].exists
  \/ last'.includeGlobal /\ tree["global"].exists

\* C11: scanProject raises the missing-root error exactly when neither root
\* exists, or only the local scope is requested and the local root is
\* absent, or only the global scope is requested and the global root is
\* absent.
C11_MissingRootExactly ==
  [][CallStep =>
       ((last'.error = "missing-root") <=>
          \/ ~tree["local"].exists /\ ~tree["global"].exists
          \/ last'.includeLocal /\ ~last'.includeGlobal /\ ~tree["local"].exists
          \/ last'.includeGlobal /\ ~last'.includeLocal /\ ~tree["global"].exists)]_vars

\* Only the local scope was requested and the call was refused although the
\* global root exists.
C11_Witness ==
  /\ last.error = "missing-root"
  /\ last.includeLocal /\ ~last.includeGlobal
  /\ ~tree["local"].exists /\ tree["global"].exists

\* C12 as stated: when no requested scope has an existing root, the two
\* options both false included, the call fails and leaves the output file
\* alone.
C12_FailsWithoutRequestedRoot ==
  [][CallStep /\ ~RequestedRootExists =>
       last'.status = "error" /\ outFile' = outFile]_vars

\* The number of files of a kind in a scope that the call read, 0 when the
\* scope was not scanned.
ReadCount(scope, type) ==
  IF ScannersRan(scope)
  THEN Len(SelectSeq(Candidates(scope, type), LAMBDA e : e.file.readable))
  ELSE 0

\* C13: in the metadata of the written graph the three local counts and the
\* three global counts are the sizes of the scan results of their scope
\* before merging (the readable files of that scope), edgeCount is the
\* length of the edge list, and the node list is the union of both scopes
\* with every colliding id once.
C13_CountsBeforeMerge ==
  Completed =>
    LET m == Graph.metadata
    IN  /\ m.agentCount = Len(Scanned("local", "agent"))
        /\ m.skillCount = Len(Scanned("local", "skill"))
        /\ m.commandCount = Len(Scanned("local", "command"))
        /\ m.globalAgentCount = Len(Scanned("global", "agent"))
        /\ m.globalSkillCount = Len(Scanned("global", "skill"))
        /\ m.globalCommandCount = Len(Scanned("global", "command"))
        /\ m.agentCount = ReadCount("local", "agent")
        /\ m.skillCount = ReadCount("local", "skill")
        /\ m.commandCount = ReadCount("local", "command")
        /\ m.globalAgentCount = ReadCount("global", "agent")
        /\ m.globalSkillCount = ReadCount("global", "skill")
        /\ m.globalCommandCount = ReadCount("global", "command")
        /\ m.edgeCount = Len(Graph.edges)
        /\ IdsOf(Graph.nodes) =
             UNION {IdsOf(Scanned(scope, type)) : scope \in Scopes, type \in Kinds}
        /\ Len(Graph.nodes) = Cardinality(IdsOf(Graph.nodes))

\* A local and a global agent share an id: one node, counted once in each
\* scope.
C13_Witness ==
  /\ Completed
  /\ Graph.metadata.agentCount = 1
  /\ Graph.metadata.globalAgentCount = 1
  /\ Len(OfType(Graph.nodes, "agent")) = 1

\* The scopes the call asked for.
Requested(scope) == IF scope = "local" THEN last.includeLocal ELSE last.includeGlobal

\* C14: every node carries the scope in whose tree its file lies and whose
\* scan returned it, and a scope that was not requested is not scanned: it
\* gives no node, no warning and counts of 0.
C14_ScopeTagsAndUnrequestedScopes ==
  /\ \A scope \in Scopes :
       last.status # "none" /\ ~Requested(scope) =>
         (IF scope = "local" THEN last.local ELSE last.global) = NoScan
  /\ Completed =>
       /\ \A i \in 1..Len(Graph.nodes) :
            LET n == Graph.nodes[i]
            IN  /\ n.scope \in Scopes
                /\ Requested(n.scope)
                /\ \E k \in 1..Len(Scanned(n.scope, n.type)) :
                     Scanned(n.scope, n.type)[k] = n
                /\ \E k \in 1..Len(Candidates(n.scope, n.type)) :
                     /\ Candidates(n.scope, n.type)[k].stem = StemOf(n)
                     /\ Candidates(n.scope, n.type)[k].file.readable
       /\ ~last.includeGlobal =>
            /\ Graph.metadata.globalAgentCount = 0
            /\ Graph.metadata.globalSkillCount = 0
            /\ Graph.metadata.globalCommandCount = 0
       /\ ~last.includeLocal =>
            /\ Graph.metadata.agentCount = 0
            /\ Graph.metadata.skillCount = 0
            /\ Graph.metadata.commandCount = 0

\* The global root holds a readable agent file and was not requested; the
\* graph holds the local nodes only.
C14_Witness ==
  /\ Completed
  /\ last.includeLocal /\ ~last.includeGlobal
  /\ \E k \in 1..Len(tree["global"].agents) : tree["global"].agents[k].file.readable
  /\ Len(Graph.nodes) > 0

\* This step is the second run: a call with the same options right after a
\* run that completed.
RepeatStep == last.status = "ok" /\ last' # last /\ last'.repeat

\* C18: the second of two runs with the same options over an unchanged tree
\* reads what the first read, and when it completes its nodes and edges are
\* those of the first run, in order and content, whatever the output file
\* held before the first run.
C18_SecondRunRepeatsTheFirst ==
  [][RepeatStep =>
       /\ last'.local = last.local
       /\ last'.global = last.global
       /\ last'.error \in {"", "write"}
       /\ last'.status = "ok" =>
            /\ last'.graph[1].nodes = last.graph[1].nodes
            /\ last'.graph[1].edges = last.graph[1].edges]_vars

\* A second run completed with a graph of several nodes and an edge.
C18_Witness ==
  /\ Completed
  /\ last.repeat
  /\ Len(Graph.nodes) >= 2
  /\ Len(Graph.edges) >= 1

\* C19 as stated: the output file changes only when a call completes, and
\* then it holds the graph of that call and nothing else; a call that fails
\* with the missing-root error has scanned nothing and leaves the file and
\* the trees alone.
C19_FileIsLastCompletedGraph ==
  [][/\ CallStep /\ last'.status = "ok" => outFile' = FileOf(last'.graph)
     /\ ~(CallStep /\ last'.status = "ok") => outFile' = outFile
     /\ CallStep /\ last'.error = "missing-root" =>
          /\ last'.local = NoScan /\ last'.global = NoScan
          /\ tree' = tree]_vars

\* C19 with the failing write told apart: a call that completes leaves
\* exactly its graph in the file; a call that fails before the write (on a
\* root, a listing or a name) leaves the file as it was, and so does every
\* step that is not a call; a call that fails in mkdir or writeFile leaves
\* the file as it was or torn; a call that fails with the missing-root error
\* has scanned nothing.
C19_FileIsLastGraphOrTorn ==
  [][/\ CallStep /\ last'.status = "ok" => outFile' = FileOf(last'.graph)
     /\ CallStep /\ last'.error = "write" => outFile' \in {outFile, TornFile}
     /\ ~(CallStep /\ (last'.status = "ok" \/ last'.error = "write")) => outFile' = outFile
     /\ CallStep /\ last'.error = "missing-root" =>
          /\ last'.local = NoScan /\ last'.global = NoScan
          /\ tree' = tree]_vars

\* A call was refused for a missing root and the graph of an earlier call is
\* still in the file.
C19_Witness ==
  /\ last.error = "missing-root"
  /\ outFile.state = "complete"
  /\ Len(outFile.graph[1].nodes) > 0

\* What lies under the agents, skills and commands directories of a root.
Under(root) ==
  [agents |-> root.agents, skills |-> root.skills,
   skillsListable |-> root.skillsListable, commands |-> root.commands]

\* C20: a call of scanProject, completed or failed, leaves everything under
\* the agents, skills and commands directories of both roots as it was; of
\* the roots themselves only the local root, a parent directory of the
\* output path, can come into being.
C20_TreesAreOnlyRead ==
  [][CallStep =>
       /\ \A scope \in Scopes : Under(tree'[scope]) = Under(tree[scope])
       /\ tree'["global"].exists = tree["global"].exists
       /\ tree["local"].exists => tree'["local"].exists]_vars

\* The call found no local root and created it on the way to the output
\* file; the global files it scanned are as they were.
C20_Witness ==
  /\ Completed
  /\ ~last.hasLocal
  /\ tree["local"].exists
  /\ Len(Graph.nodes) > 0

----------------------------------------------------------------------------
\* Properties of the text functions.

\* Line i of the text lies in the front matter and reads `argument-hint:`
\* followed by a value.
HintLine(i) ==
  LET m == yamlPattern(input.text)
      line == input.text[i]
  IN  /\ m.found
      /\ m.open < i /\ i < m.close
      /\ Len(line) > 4
      /\ SubSeq(line, 1, 4) = <<"argument", "-", "hint", ":">>

HintValue(i) == Trim(SubSeq(input.text[i], 5, Len(input.text[i])))

\* C15 as stated: when the front matter of a command file holds one line
\* `argument-hint: <v>` with a value that is not empty, argumentHint is v,
\* trimmed and without a surrounding pair of quotes.
C15_ArgumentHintIsRead ==
  output.kind = "command" =>
    \A i \in 1..Len(input.text) :
      (/\ HintLine(i)
       /\ HintValue(i) # <<>>
       /\ \A j \in 1..Len(input.text) : HintLine(j) => j = i)
      => output.argumentHint = Scalar(Unquote(HintValue(i)))

\* The lines of the body that was scanned.
BodyLines == SplitLines(output.body)

\* Line l of the body holds a trigger-section heading.
HeadingLine(l) == \E i \in 1..Len(BodyLines[l]) : HeadingAt(BodyLines[l], i)

\* Line l of the body starts a section.
SectionLine(l) ==
  Len(BodyLines[l]) >= 2 /\ BodyLines[l][1] = "#" /\ BodyLines[l][2] = "#"

\* The lines between the first trigger-section heading and the next `##`
\* heading or the end of the body.
TriggerSection ==
  LET first == Least({l \in 1..Len(BodyLines) : HeadingLine(l)})
      next == Least({l \in (first + 1)..(Len(BodyLines) + 1) :
                       l > Len(BodyLines) \/ SectionLine(l)})
  IN  SubSeq(BodyLines, first + 1, next - 1)

\* The lines of the section that begin with a hyphen, without the hyphen
\* and the white space around the rest, the first TriggerCap of them.
ListedTriggers ==
  LET listed == SelectSeq(TriggerSection, LAMBDA line : line # <<>> /\ Head(line) = "-")
      items == [i \in 1..Len(listed) |-> Trim(Tail(listed[i]))]
  IN  SubSeq(items, 1, IF Len(items) < TriggerCap THEN Len(items) ELSE TriggerCap)

\* C16 as stated: for a body with a trigger-section heading whose section
\* has no indented hyphen line, triggers are the first up to 5 listed lines
\* of the section, also when the section is the last of the body.
C16_TriggersAreTheListedLines ==
  (/\ output.kind = "skill"
   /\ \E l \in 1..Len(BodyLines) : HeadingLine(l)
   /\ \A k \in 1..Len(TriggerSection) :
        Trim(TriggerSection[k]) # <<>> /\ Head(Trim(TriggerSection[k])) = "-"
          => Head(TriggerSection[k]) = "-")
  => /\ output.triggers = ListedTriggers
     /\ Len(output.triggers) <= TriggerCap

\* C17: the stored systemPrompt is the body itself when the body has at most
\* 500 characters and its first 500 characters followed by the suffix when
\* it has more; it is never longer than 500 characters plus the suffix.
C17_PromptCutAfterLimit ==
  output.kind = "agent" =>
    LET body == input.text
        prompt == output.systemPrompt
    IN  /\ Len(body) <= PromptLimit => prompt = body
        /\ Len(body) > PromptLimit =>
             /\ Len(prompt) = PromptLimit + Len(Suffix)
             /\ \A i \in 1..PromptLimit : prompt[i] = body[i]
             /\ \A i \in 1..Len(Suffix) : prompt[PromptLimit + i] = Suffix[i]
        /\ Len(prompt) <= PromptLimit + Len(Suffix)

\* A body of 501 characters was cut to 500 and the suffix.
C17_Witness ==
  /\ output.kind = "agent"
  /\ Len(input.text) = PromptLimit + 1
  /\ Len(output.systemPrompt) = PromptLimit + Len(Suffix)


----------------------------------------------------------------------------
\* Properties of findRelationships as a function of its three lists.

\* The orders a list can be given in.
Orders(n) == {f \in [1..n -> 1..n] : \A i, j \in 1..n : f[i] = f[j] => i = j}

Reordered(list, f) == [i \in 1..Len(list) |-> list[f[i]]]

EdgeSetOf(edges) == {edges[k] : k \in 1..Len(edges)}

\* What reading the files of these agents gives in the present trees.
ReadNow(agents) ==
  [p \in {agents[i].filePath : i \in 1..Len(agents)} |-> ProjectRead(tree, p)]

\* C21 as stated: the set of edges findRelationships returns is the same for
\* every order of the agents, skills and commands lists it is given.
C21_EdgeSetIgnoresOrder ==
  Completed =>
    LET agents == OfType(Graph.nodes, "agent")
        skills == OfType(Graph.nodes, "skill")
        commands == OfType(Graph.nodes, "command")
    IN  \A fa \in Orders(Len(agents)), fs \in Orders(Len(skills)),
           fc \in Orders(Len(commands)) :
          EdgeSetOf(findRelationships(Reordered(agents, fa), Reordered(skills, fs),
                                      Reordered(commands, fc), ReadNow(agents)).edges)
            = EdgeSetOf(Graph.edges)


\* The edges of the metadata pass alone for the lists of one Relate call.
RelateDeclared ==
  LET empty == [k \in {} |-> <<>>]
  IN  EdgeSetOf(metadataPass(output.agents, buildMap(output.agents, "agent:", empty),
                             buildMap(output.skills, "skill:", empty), NoEdges).edges)

\* The result of the same call with no read rejected.
RelateSteady == findRelationships(output.agents, output.skills, output.commands, output.steady)

RelateEdges == EdgeSetOf(output.result.edges)

From(edges, agent) == {e \in edges : e.source = agent.id}

RelateAgents == {output.agents[i] : i \in 1..Len(output.agents)}

\* C22: when the read of an agent's file is rejected in the content pass,
\* the call raises no error because of it, every edge of the metadata pass
\* is in the output, the edges of that agent are exactly its edges of the
\* metadata pass, and the edges of every agent whose read was left alone are
\* those of the call in which no read is rejected.
C22_FailedReadSkipsTheAgentOnly ==
  output.kind = "relate" =>
    /\ output.result.threw = RelateSteady.threw
    /\ ~output.result.threw =>
         /\ RelateDeclared \subseteq RelateEdges
         /\ \A a \in RelateAgents :
              IF ~output.reads[a.filePath].ok
              THEN From(RelateEdges, a) = From(RelateDeclared, a)
              ELSE From(RelateEdges, a) = From(EdgeSetOf(RelateSteady.edges), a)

\* An agent whose file reads well has its read rejected: it keeps an edge of
\* the metadata pass and loses an edge of the content pass, while another
\* agent has an edge of the content pass.
C22_Witness ==
  /\ output.kind = "relate"
  /\ ~output.result.threw
  /\ \E a, b \in RelateAgents :
       /\ output.steady[a.filePath].ok /\ ~output.reads[a.filePath].ok
       /\ From(RelateDeclared, a) # {}
       /\ From(EdgeSetOf(RelateSteady.edges), a) \ RelateEdges # {}
       /\ output.reads[b.filePath].ok
       /\ From(RelateEdges, b) \ RelateDeclared # {}


\* The edge list of the metadata pass alone for the lists of one Relate call.
RelateDeclaredList ==
  LET empty == [k \in {} |-> <<>>]
  IN  metadataPass(output.agents, buildMap(output.agents, "agent:", empty),
                   buildMap(output.skills, "skill:", empty), NoEdges).edges

\* The place of an agent in the agents list.
AgentPlace(id) == CHOOSE i \in 1..Len(output.agents) : output.agents[i].id = id

\* C23: the edge list names no ordered pair twice; it starts with the edges
\* of the metadata pass, in agent order and for one agent the subagent edges
\* before the skill edges; the edges first added by the content pass follow,
\* in agent order and for one agent the skill edges before the command
\* edges.
C23_EdgesInOrderOfFirstInsertion ==
  (output.kind = "relate" /\ ~output.result.threw) =>
    LET E == output.result.edges
        n == Len(RelateDeclaredList)
    IN  /\ n <= Len(E)
        /\ SubSeq(E, 1, n) = RelateDeclaredList
        /\ \A i, j \in 1..Len(E) :
             i < j =>
               /\ <<E[i].source, E[i].target>> # <<E[j].source, E[j].target>>
               /\ (j <= n \/ i > n) => AgentPlace(E[i].source) <= AgentPlace(E[j].source)
               /\ (j <= n /\ E[i].source = E[j].source) =>
                    ~(E[i].target \in IdsOf(output.skills) /\ E[j].target \in IdsOf(output.agents))
               /\ (i > n /\ E[i].source = E[j].source) =>
                    ~(E[i].target \in IdsOf(output.commands) /\ E[j].target \in IdsOf(output.skills))

\* One call gave a subagent edge, then a skill edge of the same agent, then
\* an edge of the content pass.
C23_Witness ==
  /\ output.kind = "relate"
  /\ ~output.result.threw
  /\ LET E == output.result.edges
     IN  /\ Len(E) >= 3
         /\ Len(RelateDeclaredList) = 2
         /\ E[1].source = E[2].source
         /\ E[1].type = "calls" /\ E[1].target \in IdsOf(output.agents)
         /\ E[2].type = "uses" /\ E[2].target \in IdsOf(output.skills)
         /\ E[3].target \in IdsOf(output.commands)


\* The closing line of the block a document starts with: the first line of
\* three hyphens after the opening line and an interior of one line or more.
ClosingLines(lines) ==
  {c \in 3..Len(lines) : lines[1] = <<"-", "-", "-">> /\ lines[c] = <<"-", "-", "-">>}

\* C24 as stated: a document that starts with a line of three hyphens, an
\* interior and a closing line of three hyphens has its keys read from the
\* interior and its body is what follows the closing line, trimmed, whether
\* or not a line end or text follows the closing line; any other document
\* has the empty mapping and its whole text, trimmed, as body.
C24_BlockFoundWhateverFollows ==
  output.kind = "document" =>
    LET lines == input.text
    IN  IF ClosingLines(lines) # {}
        THEN LET c == Least(ClosingLines(lines))
             IN  /\ output.metadata = saveList(parseLines(ParseStart, SubSeq(lines, 2, c - 1))).result
                 /\ output.body = TrimText(JoinText(SubSeq(lines, c + 1, Len(lines))))
        ELSE /\ output.metadata = ParseStart.result
             /\ output.body = TrimText(JoinText(lines))


\* The mapping parsed from the lines of a block.
ParseBlock(lines) == saveList(parseLines(ParseStart, lines)).result

\* The parser has returned.
Parsed == output.kind = "parser" /\ output.done

\* A line with a key and a value, or with a key alone.
KeyLine(line) == ~Blank(line) /\ kvMatch(line)

\* Line i holds a key with an empty value, and no list-item line stands
\* between it and the next key line or the end of the block.
DanglingAlone(lines, i) ==
  /\ KeyLine(lines[i])
  /\ kvValue(lines[i]) = <<>>
  /\ \A j \in (i + 1)..Len(lines) :
       listMatch(lines[j]) => \E m \in (i + 1)..(j - 1) : KeyLine(lines[m])

Without(lines, i) == SubSeq(lines, 1, i - 1) \o SubSeq(lines, i + 1, Len(lines))

NoEmptyList(result) == \A k \in DOMAIN result : result[k] # ListVal(<<>>)

\* C25 as stated: the key of a line with an empty value and no list item
\* after it is absent from the mapping, the mapping is that of the block
\* without the line, and no key of the mapping holds an empty list.
C25_DanglingKeyIsAbsent ==
  Parsed =>
    /\ NoEmptyList(output.st.result)
    /\ \A i \in 1..Len(input.text) :
         DanglingAlone(input.text, i) =>
           /\ kvKey(input.text[i]) \notin DOMAIN output.st.result
           /\ output.st.result = ParseBlock(Without(input.text, i))

\* C25, amended: a line with a key, an empty value and no list item after
\* it adds nothing to the mapping: the mapping is that of the block without
\* the line, so the key is absent unless another line of the block names
\* it; no key of the mapping holds an empty list.
C25_DanglingLineAddsNothing ==
  Parsed =>
    /\ NoEmptyList(output.st.result)
    /\ \A i \in 1..Len(input.text) :
         DanglingAlone(input.text, i) =>
           /\ output.st.result = ParseBlock(Without(input.text, i))
           /\ \/ kvKey(input.text[i]) \notin DOMAIN output.st.result
              \/ \E j \in 1..Len(input.text) :
                   j # i /\ KeyLine(input.text[j]) /\ kvKey(input.text[j]) = kvKey(input.text[i])

\* A block with a key line left alone between two lines that set another
\* key; the mapping holds the other key only.
C25_Witness ==
  /\ Parsed
  /\ \E i \in 2..(Len(input.text) - 1) :
       /\ DanglingAlone(input.text, i)
       /\ kvKey(input.text[i]) \notin DOMAIN output.st.result
       /\ KeyLine(input.text[i - 1]) /\ KeyLine(input.text[i + 1])
       /\ kvKey(input.text[i - 1]) \in DOMAIN output.st.result
       /\ kvKey(input.text[i + 1]) \in DOMAIN output.st.result


\* The items waiting for a commit in a parser state.
Pending(st) == st.currentKey # <<>> /\ st.currentList # <<>>

\* What a key holds once the items waiting in st are committed.
Committed(st, k) ==
  IF Pending(st) /\ k = st.currentKey[1] THEN ListVal(st.currentList) ELSE Get(st.result, k)

KeysOf(st) == DOMAIN st.result \cup {st.currentKey[i] : i \in 1..Len(st.currentKey)}

\* One step of the parser from old to new on a line.
TurnAttributes(old, new, line) ==
  CASE Blank(line) -> new = old
    [] listMatch(line) ->
         IF old.currentKey = <<>> THEN new = old
         ELSE /\ new.currentList = Append(old.currentList, listItem(line))
              /\ new.currentKey = old.currentKey
              /\ new.result = old.result
    [] KeyLine(line) ->
         /\ new.currentList = <<>>
         /\ \A k \in (KeysOf(old) \cup KeysOf(new)) \ {kvKey(line)} :
              Get(new.result, k) = Committed(old, k)
         /\ IF kvValue(line) = <<>>
            THEN /\ new.currentKey = <<kvKey(line)>>
                 /\ Get(new.result, kvKey(line)) = Committed(old, kvKey(line))
            ELSE /\ new.currentKey = <<>>
                 /\ Get(new.result, kvKey(line)).kind = "scalar"
    [] OTHER -> new = old

\* C26: at every step of the line loop items wait only while a key is
\* dangling; a list-item line met while no key is dangling changes nothing,
\* one met while a key is dangling is added to the waiting items of that key
\* and of no other; a key line commits the waiting items under the dangling
\* key and leaves none waiting for the next key, and so does the end of the
\* lines.
C26_ItemsBelongToTheDanglingKey ==
  [][output'.kind = "parser" =>
       /\ output'.st.currentList # <<>> => output'.st.currentKey # <<>>
       /\ IF output'.done
          THEN \A k \in KeysOf(ParserNow) \cup KeysOf(output'.st) :
                 Get(output'.st.result, k) = Committed(ParserNow, k)
          ELSE TurnAttributes(ParserNow, output'.st, input'.text[Len(input'.text)])]_vars

\* The loop stands after a key line that committed the items of the key
\* dangling before it and left a new key dangling with nothing waiting.
C26_Witness ==
  /\ output.kind = "parser"
  /\ ~output.done
  /\ KeyLine(input.text[Len(input.text)])
  /\ output.st.currentKey # <<>>
  /\ output.st.currentList = <<>>
  /\ \E k \in DOMAIN output.st.result :
       /\ k # output.st.currentKey[1]
       /\ output.st.result[k].kind = "list"
       /\ listMatch(input.text[Len(input.text) - 1])


\* A value wrapped in a pair of quotes of one kind: an opening quote and a
\* closing quote that is another character of the value.
Wrapped(value) ==
  /\ Len(value) >= 2
  /\ value[1] \in {"\"", "'"}
  /\ value[Len(value)] = value[1]

\* C27 as stated: a key line with a value stores the trimmed value without
\* its first and last character when the trimmed value is wrapped in a pair
\* of quotes of one kind, and the trimmed value as it is in every other
\* case, a value that is one quote character included.
C27_QuotesStrippedInPairsOnly ==
  (output.kind = "parser" /\ ~output.done) =>
    LET line == input.text[Len(input.text)]
        value == kvValue(line)
    IN  (KeyLine(line) /\ value # <<>>) =>
          Get(output.st.result, kvKey(line)) =
            Scalar(IF Wrapped(value) THEN SubSeq(value, 2, Len(value) - 1) ELSE value)


\* The items of a list written as one comma-separated string.
RECURSIVE JoinComma(_)
JoinComma(items) ==
  IF items = <<>> THEN <<>>
  ELSE IF Len(items) = 1 THEN items[1]
  ELSE items[1] \o <<",", " ">> \o JoinComma(Tail(items))

\* C28 as stated: what parseListField returns for a key of the mapping
\* holds only strings that are trimmed and not empty, for a string and for a
\* list of the parser alike; for an absent value it returns the empty list;
\* a list of the parser and the same items written as one comma-separated
\* string give the same list.
C28_ListFieldsTrimmedNonEmpty ==
  Parsed =>
    /\ parseListField(Absent) = <<>>
    /\ \A k \in DOMAIN output.lists :
         /\ \A i \in 1..Len(output.lists[k]) :
              output.lists[k][i] # <<>> /\ Trim(output.lists[k][i]) = output.lists[k][i]
         /\ output.st.result[k].kind = "list" =>
              parseListField(Scalar(JoinComma(output.st.result[k].items))) = output.lists[k]


\* C29 as stated: for ids of any spelling, `->` inside an id included, every
\* ordered pair (source, target) of an attempt is the pair of exactly one
\* edge of the collector.
C29_EveryAttemptedPairHasItsEdge ==
  \A k \in 1..Len(attempts) :
    \E i \in 1..Len(collector.edges) :
      /\ SamePair(attempts[k], collector.edges[i])
      /\ \A j \in 1..Len(collector.edges) : SamePair(attempts[k], collector.edges[j]) => j = i


Running == output.kind = "run"

\* C30: the server is started only after scanProject has returned or has
\* been left out under --no-scan, and the browser only after the server;
\* when scanProject fails the process has ended with code 1 with no server
\* started and no browser opened; under --no-scan scanProject is not called
\* and the data file is as it was when the run began.
C30_ServerOnlyAfterTheScanStep ==
  Running =>
    /\ output.server =>
         IF input.scan THEN output.scanCalls = 1 /\ last.status = "ok"
         ELSE output.scanCalls = 0
    /\ output.browser => output.server
    /\ (output.scanCalls > 0 /\ last.status = "error") =>
         /\ output.pc = "exited" /\ output.exit = 1
         /\ ~output.server /\ ~output.browser
    /\ ~input.scan =>
         /\ output.scanCalls = 0
         /\ last = NoCall
         /\ outFile = output.dataAtStart

\* A run whose scan failed in the write, after the scanners went through,
\* and that has ended with code 1.
C30_Witness ==
  /\ Running
  /\ output.scanCalls = 1
  /\ last.status = "error"
  /\ outFile = TornFile
  /\ output.pc = "exited"

====
